---- MODULE Spec2Model ----
(***************************************************************************)
(* VeilProof on-chain programs.                                            *)
(*                                                                         *)
(*   programs/verifier_program/src/lib.rs  process_instruction,            *)
(*       verify_ed25519_instruction, check_ed25519_ix                      *)
(*   programs/vote_program/src/lib.rs      process_instruction             *)
(*                                                                         *)
(* Data representation.                                                    *)
(*  - A byte is a tuple.  A concrete byte with value n is <<n>>.  The      *)
(*    output bytes of a hash are terms <<i, p>> built from the preimage:   *)
(*    the hash is a free constructor, hence deterministic and injective,   *)
(*    and no output byte equals a concrete byte.                           *)
(*  - A u64 is four 16-bit limbs, least significant first (TLC integers    *)
(*    are 32 bits wide, u64::MAX is not one of them).                      *)
(*  - A u32 is two 16-bit limbs, least significant first.                  *)
(*  - usize is 64 bits wide (the SBF target), so 148 + proof_len and the   *)
(*    offset sums of check_ed25519_ix never overflow.                      *)
(***************************************************************************)
EXTENDS Integers, Sequences, FiniteSets, TLC

VARIABLES
    store,             \* account key -> data bytes of the storage slot
    store0,            \* the slots' data before the first call
    pre,               \* the slots' data before the last call
    prog,              \* the program the last call ran: "verifier", "vote", "none"
    accounts,          \* the last call's accounts: <<[key, is_writable], ...>>
    instruction_data,  \* the last call's instruction_data
    batch,             \* the instructions sysvar: [instrs, current_index]
    result,            \* the last call's return value
    log,               \* the messages the last call emitted with msg!
    stage,             \* the return site the last call left through
    writes,            \* the record writes the last call completed
    okCount,           \* account key -> calls that returned Ok against it
    stamp              \* account key -> <<>> or <<proposal id of its first Ok call>>

vars == <<store, store0, pre, prog, accounts, instruction_data, batch, result,
          log, stage, writes, okCount, stamp>>

(***************************************************************************)
(* Bounds of the model.                                                    *)
(***************************************************************************)
\* Calls that may return Ok against one slot.
MaxOk == 2

(***************************************************************************)
(* Bytes and integers.                                                     *)
(***************************************************************************)
Byte(n) == <<n>>

Bytes(ns) == [i \in 1..Len(ns) |-> Byte(ns[i])]

Zeros(n) == [i \in 1..n |-> Byte(0)]

Min(a, b) == IF a < b THEN a ELSE b

Limb == 65536

\* u64::from_le_bytes([u8; 8])
u64_from_le_bytes(b) ==
    [k \in 1..4 |-> b[2 * k - 1][1] + 256 * b[2 * k][1]]

\* u64::to_le_bytes
u64_to_le_bytes(v) ==
    [i \in 1..8 |-> IF i % 2 = 1 THEN Byte(v[(i + 1) \div 2] % 256)
                                 ELSE Byte(v[i \div 2] \div 256)]

\* u32::from_le_bytes([u8; 4])
u32_from_le_bytes(b) ==
    [k \in 1..2 |-> b[2 * k - 1][1] + 256 * b[2 * k][1]]

\* u16::from_le_bytes([lo, hi])
u16_from_le_bytes(lo, hi) == lo[1] + 256 * hi[1]

u16_MAX == 65535

u64_MAX == <<Limb - 1, Limb - 1, Limb - 1, Limb - 1>>

\* The u64 of a number below 2^31.
U64(n) == <<n % Limb, n \div Limb, 0, 0>>

\* The same as saturating_add, but wrapping to zero at the maximum.
wrapping_add_one(v) ==
    IF v[1] < Limb - 1 THEN <<v[1] + 1, v[2], v[3], v[4]>>
    ELSE IF v[2] < Limb - 1 THEN <<0, v[2] + 1, v[3], v[4]>>
    ELSE IF v[3] < Limb - 1 THEN <<0, 0, v[3] + 1, v[4]>>
    ELSE IF v[4] < Limb - 1 THEN <<0, 0, 0, v[4] + 1>>
    ELSE <<0, 0, 0, 0>>

\* u64::saturating_add(v, 1)
saturating_add_one(v) ==
    IF v = u64_MAX THEN u64_MAX
    ELSE IF v[1] < Limb - 1 THEN <<v[1] + 1, v[2], v[3], v[4]>>
    ELSE IF v[2] < Limb - 1 THEN <<0, v[2] + 1, v[3], v[4]>>
    ELSE IF v[3] < Limb - 1 THEN <<0, 0, v[3] + 1, v[4]>>
    ELSE <<0, 0, 0, v[4] + 1>>

\* usize_lt_sum with <= for <.
usize_le_sum(len, base, n) ==
    IF n[2] >= Limb \div 4 THEN TRUE
    ELSE len <= base + n[1] + Limb * n[2]

\* len < base + n for a usize len below 2^30 and a u32 n (no overflow in usize):
\* a u32 of 2^30 or more exceeds every such len.
usize_lt_sum(len, base, n) ==
    IF n[2] >= Limb \div 4 THEN TRUE
    ELSE len < base + n[1] + Limb * n[2]

(***************************************************************************)
(* solana_program::hash::hashv                                             *)
(***************************************************************************)
RECURSIVE Concat(_)
Concat(segs) == IF segs = <<>> THEN <<>> ELSE Head(segs) \o Concat(Tail(segs))

HASH_BYTES == 32

\* The hash of the concatenated segments: 32 bytes, the first of which carries
\* the preimage and the others their position.  Two outputs are equal exactly
\* when the preimages are.
hashv(segs) ==
    LET p == Concat(segs)
    IN  [i \in 1..HASH_BYTES |-> IF i = 1 THEN <<i, p>> ELSE <<i, <<>>>>]

(***************************************************************************)
(* Program constants.                                                      *)
(***************************************************************************)
ATTESTATION_SIGNER_PUBKEY ==
    Bytes(<<22, 147, 92, 181, 20, 33, 230, 79, 68, 178, 172, 225, 75, 162,
            230, 144, 29, 224, 13, 146, 203, 30, 227, 202, 105, 71, 61, 117,
            2, 171, 219, 141>>)

\* b"VEILPROOF_V1"
DOMAIN_TAG == Bytes(<<86, 69, 73, 76, 80, 82, 79, 79, 70, 95, 86, 49>>)

ed25519_program_id == "Ed25519SigVerify111111111111111111111111111"

sysvar_instructions_id == "Sysvar1nstructions1111111111111111111111111"

min_len == 8 + 8 + 32 + 32 + 64 + 4

(***************************************************************************)
(* verifier_program: decoding of instruction_data (lines 34-62).           *)
(***************************************************************************)
\* The decoder with the proposal id read from the wrong offset.
DecodeShifted(d) ==
    [expected_program_id |-> u64_from_le_bytes(SubSeq(d, 1, 8)),
     proposal_id         |-> u64_from_le_bytes(SubSeq(d, 1, 8)),
     vk_hash             |-> SubSeq(d, 17, 48),
     public_inputs_hash  |-> SubSeq(d, 49, 80),
     signature           |-> SubSeq(d, 81, 144),
     proof_len           |-> u32_from_le_bytes(SubSeq(d, 145, 148))]

\* The fixed-offset fields; d has at least min_len bytes.
Decode(d) ==
    [expected_program_id |-> u64_from_le_bytes(SubSeq(d, 1, 8)),
     proposal_id         |-> u64_from_le_bytes(SubSeq(d, 9, 16)),
     vk_hash             |-> SubSeq(d, 17, 48),
     public_inputs_hash  |-> SubSeq(d, 49, 80),
     signature           |-> SubSeq(d, 81, 144),
     proof_len           |-> u32_from_le_bytes(SubSeq(d, 145, 148))]

\* The proof taken as every byte that follows the header.
ProofOf_rest(d, proof_len) == SubSeq(d, 149, Len(d))

\* &instruction_data[148..148 + proof_len]; the bounds check has passed.
ProofOf(d, proof_len) == SubSeq(d, 149, 148 + proof_len[1] + Limb * proof_len[2])

(***************************************************************************)
(* verifier_program: the digest (lines 64-73).                             *)
(***************************************************************************)
\* The digest without the proposal id among its segments.
message_hash_no_proposal(s, proof) ==
    hashv(<<DOMAIN_TAG,
            u64_to_le_bytes(s.expected_program_id),
            s.vk_hash,
            hashv(<<proof>>),
            s.public_inputs_hash>>)

message_hash(s, proof) ==
    hashv(<<DOMAIN_TAG,
            u64_to_le_bytes(s.expected_program_id),
            u64_to_le_bytes(s.proposal_id),
            s.vk_hash,
            hashv(<<proof>>),
            s.public_inputs_hash>>)

(***************************************************************************)
(* verifier_program: check_ed25519_ix (lines 156-200).                     *)
(***************************************************************************)
\* The header fields of an Ed25519 instruction's data (at least 16 bytes).
IxOffsets(data) ==
    [sig_offset   |-> u16_from_le_bytes(data[3], data[4]),
     sig_ix_index |-> u16_from_le_bytes(data[5], data[6]),
     pub_offset   |-> u16_from_le_bytes(data[7], data[8]),
     pub_ix_index |-> u16_from_le_bytes(data[9], data[10]),
     msg_offset   |-> u16_from_le_bytes(data[11], data[12]),
     msg_size     |-> u16_from_le_bytes(data[13], data[14]),
     msg_ix_index |-> u16_from_le_bytes(data[15], data[16])]

\* check_ed25519_ix accepting any signature count of at least 1.
check_ed25519_ix_any_count(ix, expected_pubkey, expected_signature, expected_message) ==
    LET data == ix.data
        n    == Len(data)
    IN  IF n < 2 THEN FALSE
        ELSE IF data[1][1] < 1 THEN FALSE
        ELSE IF n < 2 + 14 THEN FALSE
        ELSE LET o == IxOffsets(data)
             IN  IF o.sig_ix_index # u16_MAX \/ o.pub_ix_index # u16_MAX
                       \/ o.msg_ix_index # u16_MAX THEN FALSE
                 ELSE IF n < o.sig_offset + 64 \/ n < o.pub_offset + 32 THEN FALSE
                 ELSE IF n < o.msg_offset + o.msg_size \/ o.msg_size # 32 THEN FALSE
                 ELSE /\ SubSeq(data, o.sig_offset + 1, o.sig_offset + 64) = expected_signature
                      /\ SubSeq(data, o.pub_offset + 1, o.pub_offset + 32) = expected_pubkey
                      /\ SubSeq(data, o.msg_offset + 1, o.msg_offset + o.msg_size)
                            = expected_message

\* check_ed25519_ix without the test of the message's source index.
check_ed25519_ix_no_msg_index(ix, expected_pubkey, expected_signature, expected_message) ==
    LET data == ix.data
        n    == Len(data)
    IN  IF n < 2 THEN FALSE
        ELSE IF data[1][1] # 1 THEN FALSE
        ELSE IF n < 2 + 14 THEN FALSE
        ELSE LET o == IxOffsets(data)
             IN  IF o.sig_ix_index # u16_MAX \/ o.pub_ix_index # u16_MAX THEN FALSE
                 ELSE IF n < o.sig_offset + 64 \/ n < o.pub_offset + 32 THEN FALSE
                 ELSE IF n < o.msg_offset + o.msg_size \/ o.msg_size # 32 THEN FALSE
                 ELSE /\ SubSeq(data, o.sig_offset + 1, o.sig_offset + 64) = expected_signature
                      /\ SubSeq(data, o.pub_offset + 1, o.pub_offset + 32) = expected_pubkey
                      /\ SubSeq(data, o.msg_offset + 1, o.msg_offset + o.msg_size)
                            = expected_message

\* check_ed25519_ix without the comparison of the signature bytes.
check_ed25519_ix_no_sig(ix, expected_pubkey, expected_signature, expected_message) ==
    LET data == ix.data
        n    == Len(data)
    IN  IF n < 2 THEN FALSE
        ELSE IF data[1][1] # 1 THEN FALSE
        ELSE IF n < 2 + 14 THEN FALSE
        ELSE LET o == IxOffsets(data)
             IN  IF o.sig_ix_index # u16_MAX \/ o.pub_ix_index # u16_MAX
                       \/ o.msg_ix_index # u16_MAX THEN FALSE
                 ELSE IF n < o.sig_offset + 64 \/ n < o.pub_offset + 32 THEN FALSE
                 ELSE IF n < o.msg_offset + o.msg_size \/ o.msg_size # 32 THEN FALSE
                 ELSE /\ SubSeq(data, o.pub_offset + 1, o.pub_offset + 32) = expected_pubkey
                      /\ SubSeq(data, o.msg_offset + 1, o.msg_offset + o.msg_size)
                            = expected_message

check_ed25519_ix(ix, expected_pubkey, expected_signature, expected_message) ==
    LET data == ix.data
        n    == Len(data)
    IN  IF n < 2 THEN FALSE
        ELSE IF data[1][1] # 1 THEN FALSE
        ELSE IF n < 2 + 14 THEN FALSE
        ELSE LET o == IxOffsets(data)
             IN  IF o.sig_ix_index # u16_MAX \/ o.pub_ix_index # u16_MAX
                       \/ o.msg_ix_index # u16_MAX THEN FALSE
                 ELSE IF n < o.sig_offset + 64 \/ n < o.pub_offset + 32 THEN FALSE
                 ELSE IF n < o.msg_offset + o.msg_size \/ o.msg_size # 32 THEN FALSE
                 ELSE /\ SubSeq(data, o.sig_offset + 1, o.sig_offset + 64) = expected_signature
                      /\ SubSeq(data, o.pub_offset + 1, o.pub_offset + 32) = expected_pubkey
                      /\ SubSeq(data, o.msg_offset + 1, o.msg_offset + o.msg_size)
                            = expected_message

(***************************************************************************)
(* verifier_program: verify_ed25519_instruction (lines 126-154).           *)
(* sysvar is the instructions sysvar: the instructions of the transaction  *)
(* (instrs[i + 1] is instruction i) and the index of the running one.      *)
(***************************************************************************)
\* The loop giving up at the first Ed25519 instruction that fails the check.
RECURSIVE verify_loop_first_only(_, _, _, _, _)
verify_loop_first_only(i, sysvar, expected_pubkey, expected_signature, expected_message) ==
    IF i >= sysvar.current_index THEN FALSE
    ELSE IF i >= Len(sysvar.instrs) THEN FALSE
    ELSE LET ix == sysvar.instrs[i + 1]
         IN  IF ix.program_id # ed25519_program_id
             THEN verify_loop_first_only(i + 1, sysvar, expected_pubkey,
                                         expected_signature, expected_message)
             ELSE check_ed25519_ix(ix, expected_pubkey, expected_signature,
                                   expected_message)

RECURSIVE verify_loop(_, _, _, _, _)
verify_loop(i, sysvar, expected_pubkey, expected_signature, expected_message) ==
    IF i >= sysvar.current_index THEN FALSE
    ELSE IF i >= Len(sysvar.instrs) THEN FALSE   \* load_instruction_at_checked: Err
    ELSE LET ix == sysvar.instrs[i + 1]
         IN  IF ix.program_id # ed25519_program_id
             THEN verify_loop(i + 1, sysvar, expected_pubkey, expected_signature,
                              expected_message)
             ELSE IF check_ed25519_ix(ix, expected_pubkey, expected_signature,
                                      expected_message)
             THEN TRUE
             ELSE verify_loop(i + 1, sysvar, expected_pubkey, expected_signature,
                              expected_message)

verify_ed25519_instruction(sysvar, expected_pubkey, expected_signature, expected_message) ==
    verify_loop(0, sysvar, expected_pubkey, expected_signature, expected_message)

(***************************************************************************)
(* VerifiedVoteState and its borsh encoding (lines 17-21, 105, 118-120).   *)
(***************************************************************************)
\* try_from_slice that pads a short slice with zeros and ignores a long one's tail.
try_from_slice_lenient(data) ==
    LET d == data \o Zeros(16)
    IN  [ok |-> TRUE,
         state |-> [proposal_id |-> u64_from_le_bytes(SubSeq(d, 1, 8)),
                    yes_proofs  |-> u64_from_le_bytes(SubSeq(d, 9, 16))]]

\* deserialize in place of try_from_slice: bytes left over are accepted.
try_from_slice_prefix(data) ==
    IF Len(data) < 16
    THEN [ok |-> FALSE, state |-> [proposal_id |-> U64(0), yes_proofs |-> U64(0)]]
    ELSE [ok |-> TRUE,
          state |-> [proposal_id |-> u64_from_le_bytes(SubSeq(data, 1, 8)),
                     yes_proofs  |-> u64_from_le_bytes(SubSeq(data, 9, 16))]]

\* VerifiedVoteState::try_from_slice: two u64 and no byte left over.
try_from_slice(data) ==
    IF Len(data) # 16
    THEN [ok |-> FALSE, state |-> [proposal_id |-> U64(0), yes_proofs |-> U64(0)]]
    ELSE [ok |-> TRUE,
          state |-> [proposal_id |-> u64_from_le_bytes(SubSeq(data, 1, 8)),
                     yes_proofs  |-> u64_from_le_bytes(SubSeq(data, 9, 16))]]

\* A writer that grows its buffer, as Vec<u8> does: every byte is written.
write_all_growing(data, pos, bytes) ==
    [ok   |-> TRUE,
     data |-> SubSeq(data, 1, pos) \o bytes
                  \o SubSeq(data, pos + Len(bytes) + 1, Len(data)),
     pos  |-> pos + Len(bytes)]

\* <&mut [u8] as Write>::write_all at position pos of data: the bytes that fit
\* are copied, and the call fails unless all of them fit.
write_all(data, pos, bytes) ==
    LET amt == Min(Len(bytes), Len(data) - pos)
    IN  [ok   |-> amt = Len(bytes),
         data |-> [i \in 1..Len(data) |->
                      IF i > pos /\ i <= pos + amt THEN bytes[i - pos] ELSE data[i]],
         pos  |-> pos + amt]

\* serialize with the two fields written in the wrong order.
serialize_swapped(state, data) ==
    LET w1 == write_all(data, 0, u64_to_le_bytes(state.yes_proofs))
        w2 == write_all(w1.data, w1.pos, u64_to_le_bytes(state.proposal_id))
    IN  IF ~w1.ok THEN [ok |-> FALSE, data |-> w1.data]
        ELSE [ok |-> w2.ok, data |-> w2.data]

\* state.serialize(&mut &mut data[..]): proposal_id, then yes_proofs.
serialize(state, data) ==
    LET w1 == write_all(data, 0, u64_to_le_bytes(state.proposal_id))
        w2 == write_all(w1.data, w1.pos, u64_to_le_bytes(state.yes_proofs))
    IN  IF ~w1.ok THEN [ok |-> FALSE, data |-> w1.data]
        ELSE [ok |-> w2.ok, data |-> w2.data]

(***************************************************************************)
(* verifier_program: process_instruction (lines 29-124).                   *)
(* accs: the accounts; d: instruction_data; sysvar: the instructions       *)
(* sysvar's content; data: the data of accs[1] (<<>> when there is none).  *)
(* The outcome: the return value, the messages, the data of accs[1]        *)
(* afterwards, the record writes completed, the return site.               *)
(***************************************************************************)
Outcome(r, l, data, w, st) ==
    [result |-> r, log |-> l, data |-> data, writes |-> w, stage |-> st]

\* Lines 94-123 with a replay guard: a slot that has counted a vote takes no more.
Tally_once(accs, proposal_id, data) ==
    IF ~accs[1].is_writable
    THEN Outcome("InvalidAccountData", <<<<"State account must be writable">>>>,
                 data, 0, "writable")
    ELSE LET loaded == IF data = <<>>
                       THEN [ok |-> TRUE,
                             state |-> [proposal_id |-> proposal_id,
                                        yes_proofs |-> U64(0)]]
                       ELSE try_from_slice(data)
         IN  IF ~loaded.ok
             THEN Outcome("InvalidAccountData", <<>>, data, 0, "deserialize")
             ELSE LET adopted == IF loaded.state.proposal_id = U64(0)
                                 THEN [loaded.state EXCEPT !.proposal_id = proposal_id]
                                 ELSE loaded.state
                  IN  IF adopted.proposal_id # proposal_id
                            \/ adopted.yes_proofs # U64(0)
                      THEN Outcome("InvalidInstructionData",
                                   <<<<"Proposal ID mismatch">>>>, data, 0, "mismatch")
                      ELSE LET next == [adopted EXCEPT !.yes_proofs =
                                            saturating_add_one(adopted.yes_proofs)]
                               w    == serialize(next, data)
                           IN  IF ~w.ok
                               THEN Outcome("InvalidAccountData", <<>>, w.data, 0,
                                            "serialize")
                               ELSE Outcome("Ok",
                                        <<<<"Verified anonymous YES proof for proposal {}",
                                            proposal_id>>>>,
                                        w.data, 1, "ok")

\* Lines 94-123 with the writable test moved behind the load and the comparison
\* of the proposal ids.
Tally_writable_last(accs, proposal_id, data) ==
    LET loaded == IF data = <<>>
                  THEN [ok |-> TRUE,
                        state |-> [proposal_id |-> proposal_id,
                                   yes_proofs |-> U64(0)]]
                  ELSE try_from_slice(data)
    IN  IF ~loaded.ok
        THEN Outcome("InvalidAccountData", <<>>, data, 0, "deserialize")
        ELSE LET adopted == IF loaded.state.proposal_id = U64(0)
                            THEN [loaded.state EXCEPT !.proposal_id = proposal_id]
                            ELSE loaded.state
             IN  IF adopted.proposal_id # proposal_id
                 THEN Outcome("InvalidInstructionData",
                              <<<<"Proposal ID mismatch">>>>, data, 0, "mismatch")
                 ELSE IF ~accs[1].is_writable
                 THEN Outcome("InvalidAccountData",
                              <<<<"State account must be writable">>>>,
                              data, 0, "writable")
                 ELSE LET next == [adopted EXCEPT !.yes_proofs =
                                       saturating_add_one(adopted.yes_proofs)]
                          w    == serialize(next, data)
                      IN  IF ~w.ok
                          THEN Outcome("InvalidAccountData", <<>>, w.data, 0,
                                       "serialize")
                          ELSE Outcome("Ok",
                                   <<<<"Verified anonymous YES proof for proposal {}",
                                       proposal_id>>>>,
                                   w.data, 1, "ok")

\* Lines 94-123: the state account is accs[1], the attestation was found.
Tally(accs, proposal_id, data) ==
    IF ~accs[1].is_writable
    THEN Outcome("InvalidAccountData", <<<<"State account must be writable">>>>,
                 data, 0, "writable")
    ELSE LET loaded == IF data = <<>>
                       THEN [ok |-> TRUE,
                             state |-> [proposal_id |-> proposal_id,
                                        yes_proofs |-> U64(0)]]
                       ELSE try_from_slice(data)
         IN  IF ~loaded.ok
             THEN Outcome("InvalidAccountData", <<>>, data, 0, "deserialize")
             ELSE LET adopted == IF loaded.state.proposal_id = U64(0)
                                 THEN [loaded.state EXCEPT !.proposal_id = proposal_id]
                                 ELSE loaded.state
                  IN  IF adopted.proposal_id # proposal_id
                      THEN Outcome("InvalidInstructionData",
                                   <<<<"Proposal ID mismatch">>>>, data, 0, "mismatch")
                      ELSE LET next == [adopted EXCEPT !.yes_proofs =
                                            saturating_add_one(adopted.yes_proofs)]
                               w    == serialize(next, data)
                           IN  IF ~w.ok
                               THEN Outcome("InvalidAccountData", <<>>, w.data, 0,
                                            "serialize")
                               ELSE Outcome("Ok",
                                        <<<<"Verified anonymous YES proof for proposal {}",
                                            proposal_id>>>>,
                                        w.data, 1, "ok")

\* process_instruction with the accounts examined before the buffer's length.
process_instruction_accounts_first(accs, d, sysvar, data) ==
    IF Len(accs) < 2
    THEN Outcome("NotEnoughAccountKeys", <<>>, data, 0, "accounts")
    ELSE IF accs[2].key # sysvar_instructions_id
    THEN Outcome("InvalidAccountData", <<<<"Missing instruction sysvar">>>>,
                 data, 0, "sysvar")
    ELSE IF Len(d) < min_len
    THEN Outcome("InvalidInstructionData", <<<<"Invalid instruction data length">>>>,
                 data, 0, "len")
    ELSE LET s == Decode(d)
         IN  IF usize_lt_sum(Len(d), 148, s.proof_len)
             THEN Outcome("InvalidInstructionData", <<<<"Invalid proof length">>>>,
                          data, 0, "proof_len")
             ELSE IF ~verify_ed25519_instruction(sysvar, ATTESTATION_SIGNER_PUBKEY,
                          s.signature, message_hash(s, ProofOf(d, s.proof_len)))
             THEN Outcome("InvalidInstructionData",
                          <<<<"Attestation signature verification failed">>>>,
                          data, 0, "attestation")
             ELSE Tally(accs, s.proposal_id, data)

process_instruction(accs, d, sysvar, data) ==
    IF Len(d) < min_len
    THEN Outcome("InvalidInstructionData", <<<<"Invalid instruction data length">>>>,
                 data, 0, "len")
    ELSE LET s == Decode(d)
         IN  IF usize_lt_sum(Len(d), 148, s.proof_len)
             THEN Outcome("InvalidInstructionData", <<<<"Invalid proof length">>>>,
                          data, 0, "proof_len")
             ELSE IF Len(accs) < 2            \* next_account_info: Err
             THEN Outcome("NotEnoughAccountKeys", <<>>, data, 0, "accounts")
             ELSE IF accs[2].key # sysvar_instructions_id
             THEN Outcome("InvalidAccountData", <<<<"Missing instruction sysvar">>>>,
                          data, 0, "sysvar")
             ELSE IF ~verify_ed25519_instruction(sysvar, ATTESTATION_SIGNER_PUBKEY,
                          s.signature, message_hash(s, ProofOf(d, s.proof_len)))
             THEN Outcome("InvalidInstructionData",
                          <<<<"Attestation signature verification failed">>>>,
                          data, 0, "attestation")
             ELSE Tally(accs, s.proposal_id, data)

(***************************************************************************)
(* vote_program: process_instruction (lines 12-34).                        *)
(***************************************************************************)
\* The vote handler accepting every payload of at least 9 bytes.
vote_process_instruction_at_least(d) ==
    IF Len(d) < 9
    THEN [result |-> "InvalidInstructionData",
          log |-> <<<<"Invalid instruction data length">>>>, stage |-> "len"]
    ELSE [result |-> "Ok",
          log |-> <<<<"VeilProof vote_program::vote">>,
                    <<"proposal_id: {}", u64_from_le_bytes(SubSeq(d, 1, 8))>>,
                    <<"choice: {}", d[9][1]>>>>,
          stage |-> "ok"]

vote_process_instruction(d) ==
    IF Len(d) # 9
    THEN [result |-> "InvalidInstructionData",
          log |-> <<<<"Invalid instruction data length">>>>, stage |-> "len"]
    ELSE [result |-> "Ok",
          log |-> <<<<"VeilProof vote_program::vote">>,
                    <<"proposal_id: {}", u64_from_le_bytes(SubSeq(d, 1, 8))>>,
                    <<"choice: {}", d[9][1]>>>>,
          stage |-> "ok"]

(***************************************************************************)
(* The environment: the storage slots, the submissions clients build, the  *)
(* instructions a transaction can carry in front of the verifier's.        *)
(***************************************************************************)
Slots == {"slotA", "slotB"}

VERIFIER_PROGRAM == "VerifierProgram"

OTHER_PROGRAM == "ComputeBudget111111111111111111111111111111"

\* The stored record (proposal_id, yes_proofs) as borsh writes it.
Record(proposal_id, yes_proofs) ==
    u64_to_le_bytes(proposal_id) \o u64_to_le_bytes(yes_proofs)

ZeroRecord == Record(U64(0), U64(0))

u64_MAX_minus_one == <<Limb - 2, Limb - 1, Limb - 1, Limb - 1>>

\* 2^32 + 42: a proposal id whose upper bytes are not zero.
BigProposal == <<42, 0, 1, 0>>

ProposalIds == {U64(0), U64(42), U64(43), BigProposal}

\* The slots before the first call: allocated and zeroed, empty, one vote
\* below saturation, and of a length that is not a record's.
InitStores ==
    { [s \in Slots |-> IF s = "slotA" THEN a ELSE b] :
        <<a, b>> \in { <<ZeroRecord, <<>>>>,
                       <<ZeroRecord, Zeros(15)>>,
                       <<Record(U64(42), u64_MAX_minus_one), Zeros(17)>> } }

SigA == [i \in 1..64 |-> Byte(i)]

\* SigA with the lowest bit of its first byte flipped.
SigB == [SigA EXCEPT ![1] = Byte(0)]

OneThenZeros(n) == [i \in 1..n |-> IF i = 1 THEN Byte(1) ELSE Byte(0)]

\* The end-to-end scenario's submission.
Base ==
    [epi |-> U64(7), pid |-> U64(42), vk |-> Zeros(32), pih |-> Zeros(32),
     sig |-> SigA, proof |-> <<>>]

SubFields ==
    { [Base EXCEPT !.pid = p] : p \in ProposalIds }
    \cup { [Base EXCEPT !.epi = U64(8)],
           [Base EXCEPT !.vk = OneThenZeros(32)],
           [Base EXCEPT !.pih = OneThenZeros(32)],
           [Base EXCEPT !.sig = SigB],
           [Base EXCEPT !.proof = <<Byte(1)>>],
           [Base EXCEPT !.proof = <<Byte(2)>>] }

u32_le(n) == <<Byte(n % 256), Byte((n \div 256) % 256), Byte(n \div Limb), Byte(0)>>

\* The wire format of a submission, with the proof length as given.
EncodeWith(f, proof_len_bytes) ==
    u64_to_le_bytes(f.epi) \o u64_to_le_bytes(f.pid) \o f.vk \o f.pih \o f.sig
        \o proof_len_bytes \o f.proof

Encode(f) == EncodeWith(f, u32_le(Len(f.proof)))

\* The digest the attester signs for the fields f.
DigestOf(f) ==
    hashv(<<DOMAIN_TAG, u64_to_le_bytes(f.epi), u64_to_le_bytes(f.pid), f.vk,
            hashv(<<f.proof>>), f.pih>>)

WellFormedData ==
    { Encode(f) : f \in SubFields }
    \cup { Encode(Base) \o <<Byte(9)>>,
           Encode([Base EXCEPT !.proof = <<Byte(1)>>]) \o <<Byte(9)>> }

MalformedData ==
    { <<>>,
      SubSeq(Encode(Base), 1, 100),
      SubSeq(Encode(Base), 1, 147),
      EncodeWith(Base, u32_le(1)),
      EncodeWith([Base EXCEPT !.proof = <<Byte(1)>>], u32_le(2)),
      EncodeWith(Base, Bytes(<<0, 0, 1, 0>>)),
      EncodeWith(Base, Bytes(<<255, 255, 255, 255>>)) }

u16_le(n) == <<Byte(n % 256), Byte(n \div 256)>>

\* The knobs of an Ed25519 instruction built for the fields f: the count byte,
\* the number of offsets entries present, the three source indices, the
\* declared message size, the key, the order of the three byte ranges.
GoodKnobs ==
    [program_id |-> ed25519_program_id, count |-> 1, entries |-> 1,
     sig_ix |-> u16_MAX, pub_ix |-> u16_MAX, msg_ix |-> u16_MAX,
     msg_size |-> 32, pubkey |-> ATTESTATION_SIGNER_PUBKEY, layout |-> "pub_sig_msg",
     keep |-> 1000]

\* Entry 0 describes the attestation of f; a second entry, when present,
\* repeats it.  keep: the number of bytes of the data that are kept.
Ed25519Ix(f, k) ==
    LET start == 2 + 14 * k.entries
        pub_offset == IF k.layout = "pub_sig_msg" THEN start ELSE start + 32 + 64
        sig_offset == IF k.layout = "pub_sig_msg" THEN start + 32 ELSE start + 32
        msg_offset == IF k.layout = "pub_sig_msg" THEN start + 32 + 64 ELSE start
        entry == u16_le(sig_offset) \o u16_le(k.sig_ix) \o u16_le(pub_offset)
                 \o u16_le(k.pub_ix) \o u16_le(msg_offset) \o u16_le(k.msg_size)
                 \o u16_le(k.msg_ix)
        body == IF k.layout = "pub_sig_msg"
                THEN k.pubkey \o f.sig \o DigestOf(f)
                ELSE DigestOf(f) \o f.sig \o k.pubkey
        data == <<Byte(k.count), Byte(0)>> \o entry
                \o (IF k.entries = 2 THEN entry ELSE <<>>) \o body
    IN  [program_id |-> k.program_id, data |-> SubSeq(data, 1, Min(k.keep, Len(data)))]

NonSentinel == {0, 1, u16_MAX - 1}

IndexKnobs ==
    { [GoodKnobs EXCEPT !.sig_ix = n] : n \in NonSentinel }
    \cup { [GoodKnobs EXCEPT !.pub_ix = n] : n \in NonSentinel }
    \cup { [GoodKnobs EXCEPT !.msg_ix = n] : n \in NonSentinel }

CountKnobs ==
    { [GoodKnobs EXCEPT !.count = 0],
      [GoodKnobs EXCEPT !.count = 2],
      [GoodKnobs EXCEPT !.count = 2, !.entries = 2],
      [GoodKnobs EXCEPT !.count = 255] }

OtherBadKnobs ==
    { [GoodKnobs EXCEPT !.program_id = OTHER_PROGRAM],
      [GoodKnobs EXCEPT !.msg_size = 31],
      [GoodKnobs EXCEPT !.msg_size = 33],
      [GoodKnobs EXCEPT !.pubkey = OneThenZeros(32)],
      [GoodKnobs EXCEPT !.keep = 1],
      [GoodKnobs EXCEPT !.keep = 15],
      [GoodKnobs EXCEPT !.keep = 143],
      [GoodKnobs EXCEPT !.layout = "msg_sig_pub", !.keep = 143] }

GoodLayouts == { GoodKnobs, [GoodKnobs EXCEPT !.layout = "msg_sig_pub"] }

BadKnobs == IndexKnobs \cup CountKnobs \cup OtherBadKnobs

\* The verifier's own instruction, as the sysvar lists it.
SelfIx(d) == [program_id |-> VERIFIER_PROGRAM, data |-> d]

OtherIx == [program_id |-> OTHER_PROGRAM, data |-> Bytes(<<1, 0>>)]

\* The transactions built around the verifier's instruction with data d, by a
\* client holding the attestation of the fields f.
Sysvars(f, d) ==
    { [instrs |-> <<Ed25519Ix(f, k), SelfIx(d)>>, current_index |-> 1] :
          k \in GoodLayouts \cup BadKnobs }
    \cup { [instrs |-> <<SelfIx(d)>>, current_index |-> 0],
           [instrs |-> <<SelfIx(d), Ed25519Ix(f, GoodKnobs)>>, current_index |-> 0],
           [instrs |-> <<OtherIx, Ed25519Ix(f, GoodKnobs), SelfIx(d)>>,
            current_index |-> 2],
           [instrs |-> <<Ed25519Ix(f, [GoodKnobs EXCEPT !.count = 2]),
                         Ed25519Ix(f, GoodKnobs), SelfIx(d)>>,
            current_index |-> 2],
           [instrs |-> <<Ed25519Ix(f, GoodKnobs),
                         Ed25519Ix(f, [GoodKnobs EXCEPT !.msg_ix = 0]), SelfIx(d)>>,
            current_index |-> 2],
           [instrs |-> <<Ed25519Ix(f, [GoodKnobs EXCEPT !.sig_ix = 1]),
                         SelfIx(d), Ed25519Ix(f, GoodKnobs)>>,
            current_index |-> 1] }

GoodSysvar(f, d) == [instrs |-> <<Ed25519Ix(f, GoodKnobs), SelfIx(d)>>, current_index |-> 1]

StateAccount(s, w) == [key |-> s, is_writable |-> w]

SysvarAccount == [key |-> sysvar_instructions_id, is_writable |-> FALSE]

ClockAccount == [key |-> "SysvarC1ock11111111111111111111111111111111", is_writable |-> FALSE]

GoodAccounts(s, w) == <<StateAccount(s, w), SysvarAccount>>

\* The calls of the verifier: the accounts, the instruction data and the
\* instructions sysvar of each.
VerifierCalls ==
    \* every submission, attested as it is, against each slot
    { [accs |-> GoodAccounts(s, w), d |-> Encode(f), sysvar |-> GoodSysvar(f, Encode(f))] :
          f \in SubFields, s \in Slots, w \in BOOLEAN }
    \* every submission with the attestation of Base only
    \cup { [accs |-> GoodAccounts(s, TRUE), d |-> d, sysvar |-> GoodSysvar(Base, d)] :
          d \in WellFormedData \cup MalformedData, s \in Slots }
    \* Base with every transaction shape
    \cup { [accs |-> GoodAccounts(s, TRUE), d |-> Encode(Base), sysvar |-> sv] :
          sv \in Sysvars(Base, Encode(Base)), s \in Slots }
    \* the accounts missing, or the second one not the instructions sysvar
    \cup { [accs |-> a, d |-> d, sysvar |-> GoodSysvar(Base, d)] :
          a \in { <<>>, <<StateAccount("slotA", TRUE)>>,
                  <<StateAccount("slotA", TRUE), ClockAccount>>,
                  <<StateAccount("slotB", FALSE), ClockAccount>>,
                  <<StateAccount("slotA", TRUE), SysvarAccount, ClockAccount>> },
          d \in { Encode(Base), SubSeq(Encode(Base), 1, 100) } }
    \* calls that fail before the tally, on a state account that is not writable
    \cup { [accs |-> GoodAccounts(s, FALSE), d |-> c[1], sysvar |-> c[2]] :
          c \in { <<SubSeq(Encode(Base), 1, 147),
                    GoodSysvar(Base, SubSeq(Encode(Base), 1, 147))>>,
                  <<EncodeWith(Base, u32_le(1)),
                    GoodSysvar(Base, EncodeWith(Base, u32_le(1)))>>,
                  <<Encode(Base),
                    [instrs |-> <<SelfIx(Encode(Base))>>, current_index |-> 0]>>,
                  <<Encode(Base),
                    [instrs |-> <<Ed25519Ix(Base, [GoodKnobs EXCEPT !.count = 2]),
                                  SelfIx(Encode(Base))>>,
                     current_index |-> 1]>>,
                  <<Encode([Base EXCEPT !.pid = U64(43)]),
                    GoodSysvar(Base, Encode([Base EXCEPT !.pid = U64(43)]))>> },
          s \in Slots }

VoteCalls ==
    { u64_to_le_bytes(U64(42)) \o <<Byte(1)>>,
      u64_to_le_bytes(BigProposal) \o <<Byte(0)>>,
      u64_to_le_bytes(U64(0)) \o <<Byte(255)>>,
      u64_to_le_bytes(U64(42)),
      u64_to_le_bytes(U64(42)) \o <<Byte(1), Byte(0)>>,
      <<>> }

(***************************************************************************)
(* The state machine.                                                      *)
(***************************************************************************)
NoSysvar == [instrs |-> <<>>, current_index |-> 0]

Init ==
    /\ store \in InitStores
    /\ store0 = store
    /\ pre = store
    /\ prog = "none"
    /\ accounts = <<>>
    /\ instruction_data = <<>>
    /\ batch = NoSysvar
    /\ result = "None"
    /\ log = <<>>
    /\ stage = "init"
    /\ writes = 0
    /\ okCount = [s \in Slots |-> 0]
    /\ stamp = [s \in Slots |-> <<>>]

\* The slot a call names as its state account, if it names one.
HasSlot(accs) == Len(accs) >= 1 /\ accs[1].key \in Slots

\* One call of the verifier's process_instruction.
Verify(c) ==
    LET has  == HasSlot(c.accs)
        key  == c.accs[1].key
    IN  \E o \in {process_instruction(c.accs, c.d, c.sysvar,
                                      IF has THEN store[key] ELSE <<>>)} :
        /\ has => okCount[key] < MaxOk
        /\ prog' = "verifier"
        /\ accounts' = c.accs
        /\ instruction_data' = c.d
        /\ batch' = c.sysvar
        /\ pre' = store
        /\ result' = o.result
        /\ log' = o.log
        /\ stage' = o.stage
        /\ writes' = o.writes
        /\ store' = IF has THEN [store EXCEPT ![key] = o.data] ELSE store
        /\ okCount' = IF has /\ o.result = "Ok"
                      THEN [okCount EXCEPT ![key] = @ + 1] ELSE okCount
        /\ stamp' = IF has /\ o.result = "Ok" /\ stamp[key] = <<>>
                    THEN [stamp EXCEPT ![key] = <<Decode(c.d).proposal_id>>] ELSE stamp
        /\ UNCHANGED store0

\* One call of the vote program's process_instruction.
Vote(d) ==
    LET o == vote_process_instruction(d)
    IN  /\ prog' = "vote"
        /\ accounts' = <<>>
        /\ instruction_data' = d
        /\ batch' = NoSysvar
        /\ pre' = store
        /\ result' = o.result
        /\ log' = o.log
        /\ stage' = o.stage
        /\ writes' = 0
        /\ UNCHANGED <<store, store0, okCount, stamp>>

Next ==
    \/ \E c \in VerifierCalls : Verify(c)
    \/ \E d \in VoteCalls : Vote(d)

Spec == Init /\ [][Next]_vars

(***************************************************************************)
(* What a call's inputs and outcome say, read from the bytes.              *)
(***************************************************************************)
IsVerifier == prog = "verifier"

\* The slot the last call named as its state account.
Key == accounts[1].key

\* The buffer holds the header and the proof its length field declares
\* (buffers are shorter than 2^16 bytes).
WellFormed(d) ==
    /\ Len(d) >= 148
    /\ d[147] = Byte(0)
    /\ d[148] = Byte(0)
    /\ 148 + d[145][1] + 256 * d[146][1] <= Len(d)

\* The digest of the submission in the buffer d, from the wire format.
SubmittedDigest(d) ==
    hashv(<<DOMAIN_TAG, SubSeq(d, 1, 8), SubSeq(d, 9, 16), SubSeq(d, 17, 48),
            hashv(<<SubSeq(d, 149, 148 + d[145][1] + 256 * d[146][1])>>),
            SubSeq(d, 49, 80)>>)

\* The little-endian u16 at the (1-based) position k of data.
U16At(data, k) == data[k][1] + 256 * data[k + 1][1]

\* The first offsets entry of the record fits the payload, declares a
\* 32-byte message, and points at the submission's signature, the signer key
\* and the submission's digest.
PerfectEntry(ix, d) ==
    LET data == ix.data
    IN  /\ Len(data) >= 16
        /\ U16At(data, 3) + 64 <= Len(data)
        /\ U16At(data, 7) + 32 <= Len(data)
        /\ U16At(data, 11) + U16At(data, 13) <= Len(data)
        /\ U16At(data, 13) = 32
        /\ \A j \in 1..64 : data[U16At(data, 3) + j] = d[80 + j]
        /\ \A j \in 1..32 : data[U16At(data, 7) + j] = ATTESTATION_SIGNER_PUBKEY[j]
        /\ \A j \in 1..32 : data[U16At(data, 11) + j] = SubmittedDigest(d)[j]

AllSentinel(ix) ==
    /\ U16At(ix.data, 5) = 65535
    /\ U16At(ix.data, 9) = 65535
    /\ U16At(ix.data, 15) = 65535

\* The six conditions of the attestation contract.
SatisfiesAll(ix, d) ==
    /\ ix.program_id = ed25519_program_id
    /\ PerfectEntry(ix, d)
    /\ ix.data[1] = Byte(1)
    /\ AllSentinel(ix)

\* The indices of the instructions in front of the running one.
Preceding == { i \in 0..(batch.current_index - 1) : i < Len(batch.instrs) }

Attested ==
    \E i \in Preceding : SatisfiesAll(batch.instrs[i + 1], instruction_data)

\* The call got as far as the search for the attestation.
ReachedLocator ==
    /\ IsVerifier
    /\ WellFormed(instruction_data)
    /\ Len(accounts) >= 2
    /\ accounts[2].key = sysvar_instructions_id

NoMatchingAttestation ==
    /\ result = "InvalidInstructionData"
    /\ log = <<<<"Attestation signature verification failed">>>>

\* The proposal id and the counter of a 16-byte record, as bytes.
StoredProposal(data) == SubSeq(data, 1, 8)

StoredYes(data) == SubSeq(data, 9, 16)

SubmittedProposal == SubSeq(instruction_data, 9, 16)

\* The number a little-endian byte string below 2^24 stands for.
SmallNumber(b) == b[1][1] + 256 * b[2][1] + 65536 * b[3][1]

Ones(n) == [i \in 1..n |-> Byte(255)]

(***************************************************************************)
(* C1.  A call of the verifier that returns an error leaves every slot's   *)
(* bytes as they were and completes no write; a call that returns Ok       *)
(* completes exactly one write, and only of the slot it names.             *)
(***************************************************************************)
C1_AllOrNothing ==
    IsVerifier =>
        /\ result # "Ok" => store = pre /\ writes = 0
        /\ result = "Ok" =>
              /\ writes = 1
              /\ \A s \in Slots \ {Key} : store[s] = pre[s]

\* A call that got as far as writing the record and failed there.
C1_Witness ==
    /\ IsVerifier
    /\ stage = "serialize"
    /\ result # "Ok"
    /\ store = pre

(***************************************************************************)
(* C2.  Attestation soundness: the verifier returns Ok, or changes a slot, *)
(* only if an instruction in front of the running one satisfies all six    *)
(* conditions for the submission's signature, the signer key and the       *)
(* submission's digest; the submission whose signature differs in one bit  *)
(* from the one in the only candidate record is rejected.                  *)
(***************************************************************************)
C2_AttestationSoundness ==
    /\ (IsVerifier /\ (result = "Ok" \/ store # pre)) => Attested
    /\ (/\ IsVerifier
        /\ instruction_data = Encode([Base EXCEPT !.sig = SigB])
        /\ batch = GoodSysvar(Base, instruction_data)
        /\ Len(accounts) >= 2
        /\ accounts[2].key = sysvar_instructions_id)
       => NoMatchingAttestation /\ store = pre

\* An accepted submission whose attestation is the second instruction.
C2_Witness ==
    /\ IsVerifier
    /\ result = "Ok"
    /\ batch.current_index = 2
    /\ SatisfiesAll(batch.instrs[2], instruction_data)

(***************************************************************************)
(* C3.  A slot is bound to the proposal of the first submission that       *)
(* succeeded against it (stamp): the stored proposal id is that one in     *)
(* every later state, every later success carries it, and an attested      *)
(* submission to the writable slot carrying another id fails with          *)
(* "Proposal ID mismatch" and changes nothing.                             *)
(***************************************************************************)
C3_PermanentBinding ==
    /\ \A s \in Slots :
          stamp[s] # <<>> => StoredProposal(store[s]) = u64_to_le_bytes(stamp[s][1])
    /\ (IsVerifier /\ result = "Ok") =>
          SubmittedProposal = u64_to_le_bytes(stamp[Key][1])
    /\ (/\ ReachedLocator
        /\ Attested
        /\ Key \in Slots
        /\ accounts[1].is_writable
        /\ stamp[Key] # <<>>
        /\ SubmittedProposal # u64_to_le_bytes(stamp[Key][1]))
       => /\ result = "InvalidInstructionData"
          /\ log = <<<<"Proposal ID mismatch">>>>
          /\ store = pre

(***************************************************************************)
(* C4.  A slot that started as the record (0, 0) holds as yes_proofs the   *)
(* number of calls that returned Ok against it; each such call raises      *)
(* yes_proofs by exactly 1 and stores the submission's proposal id.        *)
(***************************************************************************)
C4_TallyCounts ==
    /\ \A s \in Slots :
          store0[s] = ZeroRecord =>
              /\ Len(store[s]) = 16
              /\ SmallNumber(StoredYes(store[s])) = okCount[s]
              /\ SubSeq(store[s], 12, 16) = Zeros(5)
    /\ (IsVerifier /\ result = "Ok" /\ store0[Key] = ZeroRecord) =>
          /\ SmallNumber(StoredYes(store[Key])) = SmallNumber(StoredYes(pre[Key])) + 1
          /\ StoredProposal(store[Key]) = SubmittedProposal

\* The second valid vote for proposal 42 on a slot that started as (0, 0).
C4_Witness ==
    /\ IsVerifier
    /\ result = "Ok"
    /\ store0[Key] = ZeroRecord
    /\ pre[Key] = Record(U64(42), U64(1))
    /\ store[Key] = Record(U64(42), U64(2))
    /\ okCount[Key] = 2

(***************************************************************************)
(* C5.  Lazy creation: an attested, well-formed submission to an empty,    *)
(* writable slot succeeds and leaves the record (its proposal id, 1).      *)
(***************************************************************************)
C5_LazyCreation ==
    (/\ ReachedLocator
     /\ Attested
     /\ Key \in Slots
     /\ accounts[1].is_writable
     /\ pre[Key] = <<>>)
    => /\ result = "Ok"
       /\ store[Key] = SubmittedProposal \o u64_to_le_bytes(U64(1))

(***************************************************************************)
(* C6.  Saturation: an attested vote for the proposal of a writable slot   *)
(* whose yes_proofs is the u64 maximum succeeds and leaves it there; no    *)
(* call makes the yes_proofs of a record smaller.                          *)
(***************************************************************************)
\* a < b for two little-endian byte strings of 8 bytes.
LessLE(a, b) ==
    \E i \in 1..8 :
        /\ a[i][1] < b[i][1]
        /\ \A j \in (i + 1)..8 : a[j] = b[j]

C6_Saturating ==
    /\ (/\ ReachedLocator
        /\ Attested
        /\ Key \in Slots
        /\ accounts[1].is_writable
        /\ Len(pre[Key]) = 16
        /\ StoredProposal(pre[Key]) = SubmittedProposal
        /\ StoredYes(pre[Key]) = Ones(8))
       => /\ result = "Ok"
          /\ StoredYes(store[Key]) = Ones(8)
    /\ \A s \in Slots :
          (Len(pre[s]) = 16 /\ Len(store[s]) = 16) =>
              ~LessLE(StoredYes(store[s]), StoredYes(pre[s]))

\* A vote accepted at the maximum.
C6_Witness ==
    /\ IsVerifier
    /\ result = "Ok"
    /\ StoredYes(pre[Key]) = Ones(8)
    /\ StoredYes(store[Key]) = Ones(8)

(***************************************************************************)
(* C7.  Offset confusion: when an instruction in front of the running one  *)
(* is a single-signature record whose bytes at its offsets are all correct *)
(* but one of whose three source indices is not the sentinel, and no       *)
(* instruction satisfies all six conditions, the call fails with the       *)
(* attestation failure and changes no slot.                                *)
(***************************************************************************)
OffsetConfused(ix, d) ==
    /\ ix.program_id = ed25519_program_id
    /\ PerfectEntry(ix, d)
    /\ ix.data[1] = Byte(1)
    /\ ~AllSentinel(ix)

C7_OffsetConfusionRejected ==
    (/\ ReachedLocator
     /\ \E i \in Preceding : OffsetConfused(batch.instrs[i + 1], instruction_data)
     /\ ~Attested)
    => NoMatchingAttestation /\ store = pre

\* The record's message index is the record's own index in the batch.
C7_Witness ==
    /\ ReachedLocator
    /\ batch.current_index = 1
    /\ OffsetConfused(batch.instrs[1], instruction_data)
    /\ U16At(batch.instrs[1].data, 15) = 0
    /\ U16At(batch.instrs[1].data, 5) = 65535
    /\ U16At(batch.instrs[1].data, 9) = 65535
    /\ NoMatchingAttestation

(***************************************************************************)
(* C8.  Multi-signature records: when an instruction in front of the       *)
(* running one is a record whose signature count is not 1 and whose first  *)
(* offsets entry is a perfect match, and no instruction satisfies all six  *)
(* conditions, the call fails with the attestation failure.                *)
(***************************************************************************)
WrongCount(ix, d) ==
    /\ ix.program_id = ed25519_program_id
    /\ PerfectEntry(ix, d)
    /\ ix.data[1] # Byte(1)

C8_MultiSignatureRejected ==
    (/\ ReachedLocator
     /\ \E i \in Preceding : WrongCount(batch.instrs[i + 1], instruction_data)
     /\ ~Attested)
    => NoMatchingAttestation /\ store = pre

\* A record declaring two signatures, with two offsets entries, alone.
C8_Witness ==
    /\ ReachedLocator
    /\ batch.current_index = 1
    /\ WrongCount(batch.instrs[1], instruction_data)
    /\ batch.instrs[1].data[1] = Byte(2)
    /\ AllSentinel(batch.instrs[1])
    /\ NoMatchingAttestation

(***************************************************************************)
(* C9.  The decoder rejects the buffer, with InvalidInstructionData and no *)
(* change of a slot, exactly when it is shorter than 148 bytes or 148 plus *)
(* the u32 at bytes 144..148 exceeds its length; otherwise the fields are  *)
(* the bytes at the offsets 0, 8, 16, 48, 80, 144, 148.  A buffer of 100   *)
(* bytes is rejected.                                                      *)
(***************************************************************************)
MalformedInput ==
    /\ result = "InvalidInstructionData"
    /\ \/ log = <<<<"Invalid instruction data length">>>>
       \/ log = <<<<"Invalid proof length">>>>

C9_DecoderAcceptance ==
    IsVerifier =>
        /\ MalformedInput <=> ~WellFormed(instruction_data)
        /\ MalformedInput => store = pre
        /\ Len(instruction_data) = 100 => MalformedInput
        /\ \A f \in SubFields :
              instruction_data = Encode(f) =>
                  LET s == Decode(instruction_data)
                  IN  /\ s.expected_program_id = f.epi
                      /\ s.proposal_id = f.pid
                      /\ s.vk_hash = f.vk
                      /\ s.public_inputs_hash = f.pih
                      /\ s.signature = f.sig
                      /\ ProofOf(instruction_data, s.proof_len) = f.proof

\* The buffer truncated to 100 bytes, rejected.
C9_Witness ==
    /\ IsVerifier
    /\ instruction_data = SubSeq(Encode(Base), 1, 100)
    /\ MalformedInput
    /\ store = pre

(***************************************************************************)
(* C10.  The outcome of a failed call (the error value with the messages)  *)
(* tells the cause of the failure: each outcome is produced by one cause   *)
(* only.                                                                   *)
(***************************************************************************)
\* The slot's bytes are there and are not a record.
CorruptState == Key \in Slots /\ pre[Key] # <<>> /\ Len(pre[Key]) # 16

C10_DistinctSignals ==
    (IsVerifier /\ result # "Ok") =>
        /\ MalformedInput => ~WellFormed(instruction_data)
        /\ (result = "NotEnoughAccountKeys" /\ log = <<>>) => Len(accounts) < 2
        /\ (result = "InvalidAccountData" /\ log = <<<<"Missing instruction sysvar">>>>)
              => accounts[2].key # sysvar_instructions_id
        /\ NoMatchingAttestation => ~Attested
        /\ (result = "InvalidAccountData"
               /\ log = <<<<"State account must be writable">>>>)
              => ~accounts[1].is_writable
        /\ (result = "InvalidInstructionData" /\ log = <<<<"Proposal ID mismatch">>>>)
              => /\ Len(pre[Key]) = 16
                 /\ StoredProposal(pre[Key]) # Zeros(8)
                 /\ StoredProposal(pre[Key]) # SubmittedProposal
        /\ (result = "InvalidAccountData" /\ log = <<>>) => CorruptState

(***************************************************************************)
(* C11.  Attestation completeness: when an instruction in front of the     *)
(* running one satisfies all six conditions, the search succeeds, whatever *)
(* its position and whatever the other instructions are: the call does not *)
(* end with the attestation failure.                                       *)
(***************************************************************************)
C11_AttestationCompleteness ==
    (ReachedLocator /\ Attested) => ~NoMatchingAttestation

\* The attestation found behind an Ed25519 record that fails the check.
C11_Witness ==
    /\ ReachedLocator
    /\ batch.current_index = 2
    /\ batch.instrs[1].program_id = ed25519_program_id
    /\ ~SatisfiesAll(batch.instrs[1], instruction_data)
    /\ SatisfiesAll(batch.instrs[2], instruction_data)
    /\ result = "Ok"

(***************************************************************************)
(* C12.  No replay protection: the call that just returned Ok, made again  *)
(* with the same accounts, bytes and instructions, returns Ok again and    *)
(* raises yes_proofs by one (or leaves it at the maximum); whether a call  *)
(* returns Ok depends on the attestation, the writable flag and the slot's *)
(* stored proposal id only, not on yes_proofs or on earlier calls.         *)
(***************************************************************************)
\* b = a + 1 for two little-endian byte strings of 8 bytes.
IsSucc(a, b) ==
    \E i \in 1..8 :
        /\ b[i][1] = a[i][1] + 1
        /\ \A j \in 1..(i - 1) : a[j] = Byte(255) /\ b[j] = Byte(0)
        /\ \A j \in (i + 1)..8 : a[j] = b[j]

Incremented(a, b) == IsSucc(a, b) \/ (a = Ones(8) /\ b = Ones(8))

Accepted ==
    /\ ReachedLocator
    /\ Attested
    /\ Key \in Slots
    /\ accounts[1].is_writable
    /\ Len(pre[Key]) = 16
    /\ StoredProposal(pre[Key]) \in {Zeros(8), SubmittedProposal}

Replayed ==
    (/\ IsVerifier
     /\ result = "Ok"
     /\ prog' = "verifier"
     /\ accounts' = accounts
     /\ instruction_data' = instruction_data
     /\ batch' = batch)
    => /\ result' = "Ok"
       /\ Incremented(StoredYes(store[Key]), StoredYes(store'[Key]))

C12_NoReplayProtection ==
    /\ [](IsVerifier => (result = "Ok" <=> Accepted))
    /\ [][Replayed]_vars

\* The second Ok against a slot that started as (0, 0) and counts two votes
\* for proposal 2^32 + 42: one call only carries that proposal, so the same
\* bytes with the same record were accepted twice.
C12_Witness ==
    /\ IsVerifier
    /\ result = "Ok"
    /\ instruction_data = Encode([Base EXCEPT !.pid = BigProposal])
    /\ batch = GoodSysvar([Base EXCEPT !.pid = BigProposal], instruction_data)
    /\ store0[Key] = ZeroRecord
    /\ stamp[Key] = <<BigProposal>>
    /\ pre[Key] = Record(BigProposal, U64(1))
    /\ store[Key] = Record(BigProposal, U64(2))

(***************************************************************************)
(* C13.  Digest binding, the hash being injective on its segment list:     *)
(* two submissions compose the same digest exactly when they agree on      *)
(* expected_program_id, proposal_id, verifying_key_hash, the proof bytes   *)
(* and public_inputs_hash; a call whose batch holds one Ed25519 record,    *)
(* the attestation of a submission that differs from the submitted one in  *)
(* one of those fields, fails with NoMatchingAttestation and changes no    *)
(* slot.                                                                   *)
(***************************************************************************)
\* The digest process_instruction composes for the buffer d.
ComposedDigest(d) == message_hash(Decode(d), ProofOf(d, Decode(d).proof_len))

\* The buffer d carries the five bound fields of f.
SameBound(d, f) ==
    /\ SubSeq(d, 1, 8) = u64_to_le_bytes(f.epi)
    /\ SubSeq(d, 9, 16) = u64_to_le_bytes(f.pid)
    /\ SubSeq(d, 17, 48) = f.vk
    /\ SubSeq(d, 49, 80) = f.pih
    /\ U16At(d, 145) = Len(f.proof)
    /\ SubSeq(d, 149, 148 + U16At(d, 145)) = f.proof

C13_DigestBinding ==
    (IsVerifier /\ WellFormed(instruction_data)) =>
        /\ \A f \in SubFields :
              /\ (ComposedDigest(instruction_data) = ComposedDigest(Encode(f)))
                    <=> SameBound(instruction_data, f)
              /\ ComposedDigest(Encode(f)) = DigestOf(f)
        /\ \A f \in SubFields :
              (/\ ReachedLocator
               /\ batch = GoodSysvar(f, instruction_data)
               /\ ~SameBound(instruction_data, f))
              => /\ NoMatchingAttestation
                 /\ store = pre

\* Proposal 43 submitted with the signature and the attestation of the same
\* submission for proposal 42.
C13_Witness ==
    /\ ReachedLocator
    /\ instruction_data = Encode([Base EXCEPT !.pid = U64(43)])
    /\ batch = GoodSysvar(Base, instruction_data)
    /\ NoMatchingAttestation
    /\ store = pre

(***************************************************************************)
(* C14.  The order of the tally's checks.  As the code has it: the state   *)
(* account is required to be writable first (NotWritable), then the record *)
(* is deserialized (CorruptState), then the proposal ids are compared      *)
(* (ProposalMismatch); an attested call on a slot that is not writable is  *)
(* reported as NotWritable whatever the slot holds.                        *)
(***************************************************************************)
NotWritable ==
    /\ result = "InvalidAccountData"
    /\ log = <<<<"State account must be writable">>>>

CorruptStateSignal == result = "InvalidAccountData" /\ log = <<>>

ProposalMismatch ==
    /\ result = "InvalidInstructionData"
    /\ log = <<<<"Proposal ID mismatch">>>>

\* The call found its attestation and names a slot.
ReachedTally == ReachedLocator /\ Attested /\ Key \in Slots

\* The slot holds a record of another, nonzero, proposal.
BoundToAnother ==
    /\ Len(pre[Key]) = 16
    /\ StoredProposal(pre[Key]) \notin {Zeros(8), SubmittedProposal}

C14_WritableFirst ==
    ReachedTally =>
        /\ ~accounts[1].is_writable => NotWritable
        /\ (accounts[1].is_writable /\ CorruptState) => CorruptStateSignal
        /\ (accounts[1].is_writable /\ BoundToAnother) => ProposalMismatch
        /\ result # "Ok" => store = pre

\* C14 as claimed: the record is deserialized and the proposal ids are
\* compared before the slot is required to be writable.
C14_WritableLast ==
    ReachedTally =>
        /\ CorruptState => CorruptStateSignal
        /\ BoundToAnother => ProposalMismatch
        /\ (~accounts[1].is_writable /\ ~CorruptState /\ ~BoundToAnother) => NotWritable

\* An attested call for proposal 43 on a slot that is not writable and holds
\* votes of proposal 42: NotWritable.
C14_Witness ==
    /\ ReachedTally
    /\ ~accounts[1].is_writable
    /\ BoundToAnother
    /\ NotWritable

(***************************************************************************)
(* C15.  The stages run in order and a failed stage hides the later ones:  *)
(* a malformed buffer gives MalformedInput whatever the accounts, the      *)
(* batch and the slot; a well-formed buffer with a second account that is  *)
(* not the instructions sysvar gives MissingOrWrongCapability whatever the *)
(* batch and the slot; a well-formed buffer with the sysvar and no         *)
(* matching record gives NoMatchingAttestation whatever the slot's         *)
(* writable flag and contents.  The outcome of these calls is the same for *)
(* every content of the slot, and the slot is left as it was.              *)
(***************************************************************************)
MissingOrWrongCapability ==
    /\ result = "InvalidAccountData"
    /\ log = <<<<"Missing instruction sysvar">>>>

\* The call ended before the tally.
FailedEarly ==
    \/ ~WellFormed(instruction_data)
    \/ Len(accounts) < 2
    \/ accounts[2].key # sysvar_instructions_id
    \/ ~Attested

\* Contents a slot may have: none, a record of each proposal, no record.
SlotContents ==
    { <<>>, Zeros(15), Zeros(17) }
    \cup { Record(p, y) : p \in ProposalIds, y \in {U64(0), U64(1), u64_MAX} }

\* The accounts of the last call with the writable flag of the first one set to w.
WithWritable(w) ==
    IF Len(accounts) = 0 THEN accounts
    ELSE [accounts EXCEPT ![1] = [@ EXCEPT !.is_writable = w]]

C15_StageOrdering ==
    IsVerifier =>
        /\ ~WellFormed(instruction_data) => MalformedInput
        /\ (/\ WellFormed(instruction_data)
            /\ Len(accounts) >= 2
            /\ accounts[2].key # sysvar_instructions_id) => MissingOrWrongCapability
        /\ (ReachedLocator /\ ~Attested) => NoMatchingAttestation
        /\ FailedEarly =>
              /\ store = pre
              /\ \A x \in SlotContents, w \in BOOLEAN :
                    LET o == process_instruction(WithWritable(w), instruction_data,
                                                 batch, x)
                    IN  o.result = result /\ o.log = log /\ o.data = x

\* No matching record, on a slot that is not writable and holds no record:
\* the attestation's error, not the slot's.
C15_Witness ==
    /\ ReachedLocator
    /\ ~Attested
    /\ ~accounts[1].is_writable
    /\ CorruptState
    /\ NoMatchingAttestation
    /\ store = pre

(***************************************************************************)
(* C16.  A slot that is not empty and whose length is not 16 bytes, below  *)
(* or above: every attested call on it with the account writable fails     *)
(* with CorruptState (with the account not writable, with NotWritable), no *)
(* call on it returns Ok, and its bytes are the initial ones after any     *)
(* sequence of calls.                                                      *)
(***************************************************************************)
\* The slot s had no record's length before the first call.
CorruptAtStart(s) == store0[s] # <<>> /\ Len(store0[s]) # 16

C16_CorruptSlotWritable ==
    /\ (ReachedTally /\ CorruptState) =>
          /\ accounts[1].is_writable => CorruptStateSignal
          /\ ~accounts[1].is_writable => NotWritable
          /\ store = pre
    /\ \A s \in Slots :
          CorruptAtStart(s) => (store[s] = store0[s] /\ okCount[s] = 0)

\* C16 as claimed: CorruptState for every attested call on such a slot.
C16_CorruptSlotAlways ==
    /\ (ReachedTally /\ CorruptState) => (CorruptStateSignal /\ store = pre)
    /\ \A s \in Slots : CorruptAtStart(s) => store[s] = store0[s]

\* Attested calls on the writable 17-byte slot, after another call on it.
C16_Witness ==
    /\ ReachedTally
    /\ accounts[1].is_writable
    /\ Len(pre[Key]) = 17
    /\ CorruptAtStart(Key)
    /\ CorruptStateSignal
    /\ store[Key] = store0[Key]

(***************************************************************************)
(* C17.  The vote program's process_instruction returns Ok exactly when    *)
(* the payload is 9 bytes long, whatever the 8 bytes of proposal_id and    *)
(* the byte of choice are, and InvalidInstructionData otherwise; it logs   *)
(* the two values it read from the payload, and no slot changes in either  *)
(* outcome.                                                                *)
(***************************************************************************)
IsVote == prog = "vote"

C17_VoteHandler ==
    IsVote =>
        /\ result = "Ok" <=> Len(instruction_data) = 9
        /\ result # "Ok" =>
              /\ result = "InvalidInstructionData"
              /\ log = <<<<"Invalid instruction data length">>>>
        /\ result = "Ok" =>
              /\ Len(log) = 3
              /\ u64_to_le_bytes(log[2][2]) = SubSeq(instruction_data, 1, 8)
              /\ Byte(log[3][2]) = instruction_data[9]
        /\ store = pre
        /\ writes = 0

\* The 9-byte payload with proposal 2^32 + 42 and choice 0, after a verified
\* vote was counted: Ok, and the count is as it was.
C17_Witness ==
    /\ IsVote
    /\ instruction_data = u64_to_le_bytes(BigProposal) \o <<Byte(0)>>
    /\ result = "Ok"
    /\ \E s \in Slots : okCount[s] > 0 /\ store[s] = pre[s]

(***************************************************************************)
(* C18.  In a slot that started empty or as the all-zero record, counted   *)
(* votes belong to a stamped proposal: yes_proofs > 0 implies that the     *)
(* stored proposal_id is not zero.                                         *)
(***************************************************************************)
C18_CountedImpliesStamped ==
    \A s \in Slots :
        (/\ store0[s] \in {<<>>, ZeroRecord}
         /\ Len(store[s]) = 16
         /\ StoredYes(store[s]) # Zeros(8))
        => StoredProposal(store[s]) # Zeros(8)

(***************************************************************************)
(* C19.  Over any sequence of calls, for every slot: a call leaves         *)
(* yes_proofs as it was or one higher, yes_proofs is never below its       *)
(* initial value, the length of the slot's data never changes, and a       *)
(* record is never removed.                                                *)
(***************************************************************************)
C19_MonotoneCounter ==
    \A s \in Slots :
        /\ Len(store[s]) = Len(pre[s])
        /\ Len(store[s]) = Len(store0[s])
        /\ Len(pre[s]) = 16 =>
              \/ StoredYes(store[s]) = StoredYes(pre[s])
              \/ IsSucc(StoredYes(pre[s]), StoredYes(store[s]))
        /\ Len(store0[s]) = 16 =>
              ~LessLE(StoredYes(store[s]), StoredYes(store0[s]))
        /\ Len(pre[s]) # 16 => store[s] = pre[s]

\* The second counted vote of a slot that started as (0, 0): the counter
\* went from 1 to 2 in 16 bytes.
C19_Witness ==
    /\ IsVerifier
    /\ result = "Ok"
    /\ store0[Key] = ZeroRecord
    /\ StoredYes(pre[Key]) = u64_to_le_bytes(U64(1))
    /\ StoredYes(store[Key]) = u64_to_le_bytes(U64(2))
    /\ Len(store[Key]) = 16

(***************************************************************************)
(* C20.  The bytes of the buffer at and after 148 + proof_len are accepted *)
(* and are not part of the digest: the buffer and the buffer cut at        *)
(* 148 + proof_len compose the same digest and have the same outcome on    *)
(* the same accounts, batch and slot.                                      *)
(***************************************************************************)
\* The end of the declared proof in the buffer d.
DeclaredEnd(d) == 148 + U16At(d, 145)

C20_TrailingBytesUnbound ==
    (/\ IsVerifier
     /\ WellFormed(instruction_data)
     /\ Len(instruction_data) > DeclaredEnd(instruction_data)) =>
        LET cut == SubSeq(instruction_data, 1, DeclaredEnd(instruction_data))
            o   == process_instruction(accounts, cut, batch,
                                       IF HasSlot(accounts) THEN pre[Key] ELSE <<>>)
        IN  /\ ComposedDigest(instruction_data) = ComposedDigest(cut)
            /\ result = o.result
            /\ log = o.log
            /\ HasSlot(accounts) => store[Key] = o.data
            /\ ReachedTally => (result = "Ok" <=> Accepted)

\* The end-to-end submission followed by one more byte, counted.
C20_Witness ==
    /\ IsVerifier
    /\ instruction_data = Encode(Base) \o <<Byte(9)>>
    /\ Len(instruction_data) = DeclaredEnd(instruction_data) + 1
    /\ batch = GoodSysvar(Base, instruction_data)
    /\ result = "Ok"
    /\ IsSucc(StoredYes(pre[Key]), StoredYes(store[Key]))

====
